---------------------------- MODULE Spec2Model ----------------------------
(***************************************************************************)
(* Model of puzzle_solver.py: the sliding-puzzle state (PuzzleState), its  *)
(* successor function, goal test and Manhattan heuristic, the three search *)
(* procedures bfs_solve, dfs_solve and astar_solve, and the dispatcher     *)
(* solve_puzzle.                                                           *)
(*                                                                         *)
(* A board is a sequence of rows, each a sequence of integers, as the      *)
(* list of lists of the program.  Rows and columns are counted from 0 as   *)
(* in the program, so cell (i, j) is board[i + 1][j + 1].                  *)
(*                                                                         *)
(* One behaviour is a caller holding one input board and calling           *)
(* solve_puzzle on it, one call after the other, with algorithm names of   *)
(* its choice, as test_solver.py does with each algorithm.  A call that    *)
(* reaches a search engine runs that engine's while loop one iteration per *)
(* step.  time_taken (wall clock) is not part of the modelled result.      *)
(***************************************************************************)
EXTENDS Integers, Sequences, FiniteSets, TLC

VARIABLES
    initial_board,   \* the caller's board, the argument of every call
    pc,              \* "idle", or the search engine whose loop is running
    algorithm,       \* the algorithm argument of the current / last call
    queue,           \* bfs_solve: deque of states, front first
    stack,           \* dfs_solve: list of states, top last
    priority_queue,  \* astar_solve: the heapq list of <<f, h, state>>
    visited,         \* the boards of the states in the visited set
    nodes_expanded,  \* counter of the running search
    max_size,        \* max_queue_size / max_stack_size of the running search
    depth_limit,     \* dfs_solve's depth_limit argument
    patience,        \* how many loop iterations the caller waits for
    results          \* algorithm name -> what the last call with it returned

vars == <<initial_board, pc, algorithm, queue, stack, priority_queue, visited,
          nodes_expanded, max_size, depth_limit, patience, results>>

---------------------------------------------------------------------------
(* Bounds of the model *)

\* 3x3 input boards are the boards at most MaxScramble slides from the goal.
MaxScramble == 3

\* A search loop is followed for at most MaxNodes iterations; a call that
\* needs more is abandoned by the caller and its result discarded.
MaxNodes == 40

\* The same, for the behaviours that start from one of HardBoards.
MaxHardNodes == 900

\* A caller of dfs_solve itself passes a depth_limit of 0 .. MaxLimit.
MaxLimit == 7

\* Such a caller follows the loop of dfs_solve for MaxDfsNodes iterations.
MaxDfsNodes == 160

---------------------------------------------------------------------------
(* Python values *)

\* Python's None (the parent and the move of the initial state).
None == [isNone |-> TRUE]

\* What results holds for an algorithm name not called yet.
NoResult == [called |-> FALSE]

\* Faulty variant of Reverse: the list is left in its order.
Unreversed(s) == s

\* list.reverse() and reversed slicing.
Reverse(s) == [i \in 1..Len(s) |-> s[Len(s) + 1 - i]]

Max(a, b) == IF a >= b THEN a ELSE b

Abs(x) == IF x < 0 THEN -x ELSE x

---------------------------------------------------------------------------
(* class PuzzleState *)

\* PuzzleState.__init__
PuzzleState(board, parent, move, depth, cost) ==
    [board |-> board, parent |-> parent, move |-> move, depth |-> depth,
     cost |-> cost, size |-> Len(board)]

\* PuzzleState.__eq__ : equality of the boards only.
StateEq(a, b) == a.board = b.board

\* PuzzleState.__lt__ : comparison of the costs only.
StateLt(a, b) == a.cost < b.cost

\* The cells of an N x N board in the scanning order of the two nested
\* range(size) loops: row-major, 0-based.
Cells(size) == [k \in 1..(size * size) |-> <<(k - 1) \div size, (k - 1) % size>>]

\* PuzzleState.find_empty : the first cell holding 0 in scanning order
\* (None when there is none).
find_empty(state) ==
    LET cells == Cells(state.size)
        hits  == {k \in 1..Len(cells) :
                    state.board[cells[k][1] + 1][cells[k][2] + 1] = 0}
    IN  IF hits = {} THEN None
        ELSE cells[CHOOSE k \in hits : \A m \in hits : k <= m]

\* PuzzleState.get_goal_state
get_goal_state(state) ==
    IF state.size = 2 THEN <<<<1, 2>>, <<3, 0>>>>
    ELSE <<<<1, 2, 3>>, <<4, 5, 6>>, <<7, 8, 0>>>>

\* Faulty variant of is_goal: the goal boards with the blank first.
is_goalBlankFirst(state) ==
    LET goal == IF state.size = 2 THEN <<<<0, 1>>, <<2, 3>>>>
                ELSE <<<<0, 1, 2>>, <<3, 4, 5>>, <<6, 7, 8>>>>
    IN  state.board = goal

\* PuzzleState.is_goal
is_goal(state) ==
    LET goal == IF state.size = 2 THEN <<<<1, 2>>, <<3, 0>>>>
                ELSE <<<<1, 2, 3>>, <<4, 5, 6>>, <<7, 8, 0>>>>
    IN  state.board = goal

\* Faulty variant of Moves: the directions are listed clockwise.
MovesClockwise == << <<-1, 0, "UP">>, <<0, 1, "RIGHT">>, <<1, 0, "DOWN">>, <<0, -1, "LEFT">> >>

\* The moves list of get_successors: (row_delta, col_delta, move_name).
Moves == << <<-1, 0, "UP">>, <<1, 0, "DOWN">>, <<0, -1, "LEFT">>, <<0, 1, "RIGHT">> >>

\* The bounds test of get_successors.
InBounds(size, new_row, new_col) ==
    /\ 0 <= new_row /\ new_row < size
    /\ 0 <= new_col /\ new_col < size

\* The copy of the board with cells (row, col) and (new_row, new_col) swapped.
SwapCells(board, row, col, new_row, new_col) ==
    [board EXCEPT ![row + 1][col + 1] = board[new_row + 1][new_col + 1],
                  ![new_row + 1][new_col + 1] = board[row + 1][col + 1]]

\* Faulty variant of get_successors: a successor's depth is taken from the
\* parent's cost, which A* has set to f, instead of the parent's depth.
get_successorsDepthFromCost(state) ==
    LET pos   == find_empty(state)
        row   == pos[1]
        col   == pos[2]
        legal == SelectSeq(Moves, LAMBDA m : InBounds(state.size, row + m[1], col + m[2]))
    IN  [k \in 1..Len(legal) |->
            PuzzleState(SwapCells(state.board, row, col,
                                  row + legal[k][1], col + legal[k][2]),
                        state, legal[k][3], state.cost + 1, state.cost + 1)]

\* PuzzleState.get_successors
get_successors(state) ==
    LET pos   == find_empty(state)
        row   == pos[1]
        col   == pos[2]
        legal == SelectSeq(Moves, LAMBDA m : InBounds(state.size, row + m[1], col + m[2]))
    IN  [k \in 1..Len(legal) |->
            PuzzleState(SwapCells(state.board, row, col,
                                  row + legal[k][1], col + legal[k][2]),
                        state, legal[k][3], state.depth + 1, state.cost + 1)]

\* The goal_positions tables of manhattan_distance: tile -> (row, col).
goal_positions(size) ==
    IF size = 2
    THEN (1 :> <<0, 0>>) @@ (2 :> <<0, 1>>) @@ (3 :> <<1, 0>>) @@ (0 :> <<1, 1>>)
    ELSE (1 :> <<0, 0>>) @@ (2 :> <<0, 1>>) @@ (3 :> <<0, 2>>) @@
         (4 :> <<1, 0>>) @@ (5 :> <<1, 1>>) @@ (6 :> <<1, 2>>) @@
         (7 :> <<2, 0>>) @@ (8 :> <<2, 1>>) @@ (0 :> <<2, 2>>)

RECURSIVE SumDistances(_, _, _)
\* The double loop of manhattan_distance over the cells from the k-th on.
SumDistances(state, cells, k) ==
    IF k > Len(cells) THEN 0
    ELSE LET i    == cells[k][1]
             j    == cells[k][2]
             tile == state.board[i + 1][j + 1]
             here == IF tile # 0
                     THEN Abs(i - goal_positions(state.size)[tile][1])
                          + Abs(j - goal_positions(state.size)[tile][2])
                     ELSE 0
         IN  here + SumDistances(state, cells, k + 1)

\* Faulty variant of manhattan_distance: the blank is counted as a tile.
manhattan_distanceCountingBlank(state) ==
    LET empty == find_empty(state)
    IN  SumDistances(state, Cells(state.size), 1)
        + Abs(empty[1] - goal_positions(state.size)[0][1])
        + Abs(empty[2] - goal_positions(state.size)[0][2])

\* PuzzleState.manhattan_distance
manhattan_distance(state) == SumDistances(state, Cells(state.size), 1)

RECURSIVE ParentChain(_)
\* The boards collected by the loop "while state: path.append(...);
\* state = state.parent", from the given state back to the initial one.
ParentChain(state) ==
    IF state = None THEN <<>>
    ELSE <<state.board>> \o ParentChain(state.parent)

\* Faulty variant of ReconstructPath: the reversal is forgotten.
ReconstructPathUnreversed(current) == ParentChain(current)

\* The path reconstruction of the three engines: collect, then reverse.
ReconstructPath(current) == Reverse(ParentChain(current))

---------------------------------------------------------------------------
(* heapq, as astar_solve uses it on a list of tuples (f, h, state) *)

\* Faulty variant of TupleLt: tuples with equal f are never less, whatever
\* their h.
TupleLtByFOnly(a, b) == a[1] < b[1]

\* Faulty variant of TupleLt: the comparison of f is the wrong way round.
TupleLtLargestFirst(a, b) ==
    IF a[1] # b[1] THEN a[1] > b[1]
    ELSE IF a[2] # b[2] THEN a[2] < b[2]
    ELSE IF ~StateEq(a[3], b[3]) THEN StateLt(a[3], b[3])
    ELSE FALSE

\* Python's < on two tuples (f, h, state): the first position where the
\* elements differ (by ==) decides, by <; equal tuples are not less.
TupleLt(a, b) ==
    IF a[1] # b[1] THEN a[1] < b[1]
    ELSE IF a[2] # b[2] THEN a[2] < b[2]
    ELSE IF ~StateEq(a[3], b[3]) THEN StateLt(a[3], b[3])
    ELSE FALSE

RECURSIVE SiftDownLoop(_, _, _, _)
\* The while loop of heapq._siftdown; positions are 0-based.
SiftDownLoop(heap, startpos, pos, newitem) ==
    IF pos > startpos
    THEN LET parentpos == (pos - 1) \div 2
             parent    == heap[parentpos + 1]
         IN  IF TupleLt(newitem, parent)
             THEN SiftDownLoop([heap EXCEPT ![pos + 1] = parent],
                               startpos, parentpos, newitem)
             ELSE [heap EXCEPT ![pos + 1] = newitem]
    ELSE [heap EXCEPT ![pos + 1] = newitem]

\* heapq._siftdown(heap, startpos, pos)
SiftDown(heap, startpos, pos) == SiftDownLoop(heap, startpos, pos, heap[pos + 1])

RECURSIVE SiftUpLoop(_, _, _, _)
\* The while loop of heapq._siftup and what follows it: the smaller child
\* bubbles up until a leaf is hit, then newitem is sifted down from there.
SiftUpLoop(heap, startpos, pos, newitem) ==
    LET endpos   == Len(heap)
        leftpos  == 2 * pos + 1
        rightpos == leftpos + 1
        childpos == IF rightpos < endpos
                       /\ ~TupleLt(heap[leftpos + 1], heap[rightpos + 1])
                    THEN rightpos ELSE leftpos
    IN  IF leftpos < endpos
        THEN SiftUpLoop([heap EXCEPT ![pos + 1] = heap[childpos + 1]],
                        startpos, childpos, newitem)
        ELSE SiftDown([heap EXCEPT ![pos + 1] = newitem], startpos, pos)

\* heapq._siftup(heap, pos)
SiftUp(heap, pos) == SiftUpLoop(heap, pos, pos, heap[pos + 1])

\* heapq.heappush(heap, item): the heap afterwards.
HeapPush(heap, item) == SiftDown(Append(heap, item), 0, Len(heap))

\* heapq.heappop(heap): the item returned and the heap afterwards.
HeapPop(heap) ==
    LET lastelt == heap[Len(heap)]
        rest    == SubSeq(heap, 1, Len(heap) - 1)
    IN  IF rest # <<>>
        THEN [item |-> rest[1], heap |-> SiftUp([rest EXCEPT ![1] = lastelt], 0)]
        ELSE [item |-> lastelt, heap |-> rest]

---------------------------------------------------------------------------
(* The successor loops of the three engines.  Each takes the successors, *)
(* the index of the next one to look at, the visited set and the         *)
(* frontier, and gives the visited set and the frontier after the loop.  *)

RECURSIVE BfsEnqueueFront(_, _, _, _)
\* Faulty variant of BfsEnqueue: appendleft in place of append.
BfsEnqueueFront(successors, k, vis, q) ==
    IF k > Len(successors) THEN [visited |-> vis, frontier |-> q]
    ELSE IF successors[k].board \notin vis
         THEN BfsEnqueueFront(successors, k + 1, vis \cup {successors[k].board},
                              <<successors[k]>> \o q)
         ELSE BfsEnqueueFront(successors, k + 1, vis, q)

RECURSIVE BfsEnqueue(_, _, _, _)
\* bfs_solve: for successor in ...: if not visited: add, append.
BfsEnqueue(successors, k, vis, q) ==
    IF k > Len(successors) THEN [visited |-> vis, frontier |-> q]
    ELSE IF successors[k].board \notin vis
         THEN BfsEnqueue(successors, k + 1, vis \cup {successors[k].board},
                         Append(q, successors[k]))
         ELSE BfsEnqueue(successors, k + 1, vis, q)

RECURSIVE DfsPushUnmarked(_, _, _, _)
\* Faulty variant of DfsPush: a pushed successor is not added to visited.
DfsPushUnmarked(successors, k, vis, st) ==
    IF k > Len(successors) THEN [visited |-> vis, frontier |-> st]
    ELSE IF successors[k].board \notin vis
         THEN DfsPushUnmarked(successors, k + 1, vis, Append(st, successors[k]))
         ELSE DfsPushUnmarked(successors, k + 1, vis, st)

RECURSIVE DfsPush(_, _, _, _)
\* dfs_solve: for successor in successors: if not visited: add, push.
DfsPush(successors, k, vis, st) ==
    IF k > Len(successors) THEN [visited |-> vis, frontier |-> st]
    ELSE IF successors[k].board \notin vis
         THEN DfsPush(successors, k + 1, vis \cup {successors[k].board},
                      Append(st, successors[k]))
         ELSE DfsPush(successors, k + 1, vis, st)

\* astar_solve: the entry pushed for an unvisited successor: f = g + h is
\* stored as the successor's cost and the tuple (f, h, successor) is built.
AstarEntry(successor) ==
    LET g_n == successor.depth
        h_n == manhattan_distance(successor)
        f_n == g_n + h_n
    IN  <<f_n, h_n, [successor EXCEPT !.cost = f_n]>>

RECURSIVE AstarPushReopening(_, _, _, _)
\* Faulty variant of AstarPush: every successor is pushed, visited or not.
AstarPushReopening(successors, k, vis, heap) ==
    IF k > Len(successors) THEN [visited |-> vis, frontier |-> heap]
    ELSE AstarPushReopening(successors, k + 1, vis \cup {successors[k].board},
                            HeapPush(heap, AstarEntry(successors[k])))

RECURSIVE AstarPush(_, _, _, _)
\* astar_solve: for successor in ...: if not visited: add, heappush.
AstarPush(successors, k, vis, heap) ==
    IF k > Len(successors) THEN [visited |-> vis, frontier |-> heap]
    ELSE IF successors[k].board \notin vis
         THEN AstarPush(successors, k + 1, vis \cup {successors[k].board},
                        HeapPush(heap, AstarEntry(successors[k])))
         ELSE AstarPush(successors, k + 1, vis, heap)

---------------------------------------------------------------------------
(* The result dictionaries *)

\* The depth limit solve_puzzle passes to dfs_solve.
DepthLimit == 50

\* Faulty variant of BfsSuccess: solution_depth counts boards, not slides.
BfsSuccessCountingBoards(current, expanded, peak) ==
    LET path == ReconstructPath(current)
    IN  [success |-> TRUE, algorithm |-> "BFS", solution_path |-> path,
         solution_depth |-> Len(path), nodes_expanded |-> expanded,
         max_queue_size |-> peak]

\* The success and failure returns of the three engines.
BfsSuccess(current, expanded, peak) ==
    LET path == ReconstructPath(current)
    IN  [success |-> TRUE, algorithm |-> "BFS", solution_path |-> path,
         solution_depth |-> Len(path) - 1, nodes_expanded |-> expanded,
         max_queue_size |-> peak]

BfsFailure(expanded, peak) ==
    [success |-> FALSE, algorithm |-> "BFS", nodes_expanded |-> expanded,
     max_queue_size |-> peak]

DfsSuccess(current, expanded, peak) ==
    LET path == ReconstructPath(current)
    IN  [success |-> TRUE, algorithm |-> "DFS", solution_path |-> path,
         solution_depth |-> Len(path) - 1, nodes_expanded |-> expanded,
         max_stack_size |-> peak]

\* The message is the f-string's parts, the limit formatted as decimal.
DfsFailure(expanded, peak, limit) ==
    [success |-> FALSE, algorithm |-> "DFS", nodes_expanded |-> expanded,
     max_stack_size |-> peak,
     message |-> <<"No solution found within depth limit of ", ToString(limit)>>]

AstarSuccess(current, expanded, peak) ==
    LET path == ReconstructPath(current)
    IN  [success |-> TRUE, algorithm |-> "A*", solution_path |-> path,
         solution_depth |-> Len(path) - 1, nodes_expanded |-> expanded,
         max_queue_size |-> peak]

AstarFailure(expanded, peak) ==
    [success |-> FALSE, algorithm |-> "A*", nodes_expanded |-> expanded,
     max_queue_size |-> peak]

\* solve_puzzle's three error results; error is the f-string's parts.
SizeError(size) ==
    [success |-> FALSE,
     error |-> <<"Invalid puzzle size. Only 2x2 and 3x3 puzzles are supported. Got ",
                 ToString(size), "x", ToString(size), ".">>]

RowsError(size) ==
    [success |-> FALSE,
     error |-> <<"Invalid puzzle: All rows must have the same size (",
                 ToString(size), ").">>]

UnknownAlgorithmError(name) ==
    [success |-> FALSE, error |-> <<"Unknown algorithm: ", name>>]

---------------------------------------------------------------------------
(* The caller's inputs *)

\* The algorithm names a caller passes: the three known ones and two others.
AlgorithmNames == {"BFS", "DFS", "A*", "IDA*", "bfs"}

\* The boards one slide away from a board.
Neighbours(board) ==
    LET successors == get_successors(PuzzleState(board, None, None, 0, 0))
    IN  {successors[k].board : k \in 1..Len(successors)}

RECURSIVE Within(_, _)
\* The boards at most k slides away from the boards of S.
Within(S, k) ==
    IF k = 0 THEN S
    ELSE LET T == S \cup UNION {Neighbours(b) : b \in S}
         IN  IF T = S THEN S ELSE Within(T, k - 1)

\* Every 2x2 board holding 0..3 once each.
Boards2 ==
    {bd \in {<<<<a, b>>, <<c, d>>>> : a \in 0..3, b \in 0..3, c \in 0..3, d \in 0..3} :
        {bd[1][1], bd[1][2], bd[2][1], bd[2][2]} = 0..3}

\* The 3x3 boards at most MaxScramble slides from the goal.
Boards3 == Within({<<<<1, 2, 3>>, <<4, 5, 6>>, <<7, 8, 0>>>>}, MaxScramble)

\* Boards solve_puzzle must reject: 4x4, 1x1, empty, and rows of a length
\* other than the number of rows.
Malformed ==
    { <<<<1, 2, 3, 4>>, <<5, 6, 7, 8>>, <<9, 10, 11, 12>>, <<13, 14, 15, 0>>>>,
      <<<<0>>>>,
      <<>>,
      <<<<1, 2>>, <<3>>>>,
      <<<<1, 2, 3>>, <<4, 5, 0>>>>,
      <<<<1, 2, 4>>, <<3, 0, 5>>>>,
      <<<<1, 2, 3>>, <<4, 0>>, <<5, 6, 7>>>> }

InputBoards == Boards2 \cup Boards3 \cup Malformed

\* A 3x3 board ten slides from the goal.
HardBoards == { <<<<1, 3, 5>>, <<4, 0, 8>>, <<7, 6, 2>>>> }

\* A 3x3 board six slides from the goal.
DeepBoards == { <<<<1, 2, 3>>, <<5, 7, 6>>, <<0, 4, 8>>>> }

\* The boards a caller of dfs_solve itself holds: valid boards only.
DfsBoards == Boards2 \cup Boards3 \cup DeepBoards

\* The depth limits such a caller passes.
DfsLimits == 0..MaxLimit

\* The first shape check of solve_puzzle: "size not in [2, 3]" fails.
SizeOk(size) == size \in {2, 3}

\* Faulty variant of RowsOk: only a row that is too short is refused.
RowsOkUnlessShort(board, size) == ~(\E r \in 1..Len(board) : Len(board[r]) < size)

\* The second shape check: no row has a length other than size.
RowsOk(board, size) == ~(\E r \in 1..Len(board) : Len(board[r]) # size)

\* Faulty variant of Engine: the final else falls through to BFS.
EngineDefaultBfs(name) ==
    IF name = "BFS" THEN "BFS"
    ELSE IF name = "DFS" THEN "DFS"
    ELSE IF name = "A*" THEN "A*"
    ELSE "BFS"

\* The if / elif chain of solve_puzzle on the algorithm name: the engine
\* called, "none" for the final else.
Engine(name) ==
    IF name = "BFS" THEN "BFS"
    ELSE IF name = "DFS" THEN "DFS"
    ELSE IF name = "A*" THEN "A*"
    ELSE "none"

---------------------------------------------------------------------------
(* The state machine *)

Init ==
    /\ initial_board \in InputBoards
    /\ pc = "idle"
    /\ algorithm = ""
    /\ queue = <<>>
    /\ stack = <<>>
    /\ priority_queue = <<>>
    /\ visited = {}
    /\ nodes_expanded = 0
    /\ max_size = 0
    /\ depth_limit = 0
    /\ patience = MaxNodes
    /\ results = [a \in AlgorithmNames |-> NoResult]

InitHard ==
    /\ initial_board \in HardBoards
    /\ pc = "idle"
    /\ algorithm = ""
    /\ queue = <<>>
    /\ stack = <<>>
    /\ priority_queue = <<>>
    /\ visited = {}
    /\ nodes_expanded = 0
    /\ max_size = 0
    /\ depth_limit = 0
    /\ patience = MaxHardNodes
    /\ results = [a \in AlgorithmNames |-> NoResult]

\* A return after a search that slid the tiles of the caller's own board
\* instead of a copy: a solved board is left behind.
ReturnLeavingBoardSolved(result) ==
    /\ results' = [results EXCEPT ![algorithm] = result]
    /\ pc' = "idle"
    /\ queue' = <<>>
    /\ stack' = <<>>
    /\ priority_queue' = <<>>
    /\ visited' = {}
    /\ nodes_expanded' = 0
    /\ max_size' = 0
    /\ depth_limit' = 0
    /\ initial_board' = IF result.success
                        THEN result.solution_path[Len(result.solution_path)]
                        ELSE initial_board
    /\ UNCHANGED <<algorithm, patience>>

\* A call returns: its result is what the caller now holds for that
\* algorithm name, and the engine's local variables are gone.
Return(result) ==
    /\ results' = [results EXCEPT ![algorithm] = result]
    /\ pc' = "idle"
    /\ queue' = <<>>
    /\ stack' = <<>>
    /\ priority_queue' = <<>>
    /\ visited' = {}
    /\ nodes_expanded' = 0
    /\ max_size' = 0
    /\ depth_limit' = 0
    /\ UNCHANGED <<initial_board, algorithm, patience>>

\* solve_puzzle(initial_board, name), up to the first test of the chosen
\* engine's while loop: the two shape checks, the initial state, the
\* dispatch on the name and the engine's initialisation.
SolvePuzzle(name) ==
    /\ pc = "idle"
    /\ algorithm' = name
    /\ LET size          == Len(initial_board)
           initial_state == PuzzleState(initial_board, None, None, 0, 0)
           error(result) ==
               /\ results' = [results EXCEPT ![name] = result]
               /\ UNCHANGED <<pc, queue, stack, priority_queue, visited,
                              nodes_expanded, max_size, depth_limit>>
           start(engine) ==
               /\ pc' = engine
               /\ visited' = {initial_state.board}
               /\ nodes_expanded' = 0
               /\ max_size' = 0
               /\ UNCHANGED results
       IN  IF ~SizeOk(size) THEN error(SizeError(size))
           ELSE IF ~RowsOk(initial_board, size) THEN error(RowsError(size))
           ELSE IF Engine(name) = "BFS"
           THEN /\ start("BFS")
                /\ queue' = <<initial_state>>
                /\ UNCHANGED <<stack, priority_queue, depth_limit>>
           ELSE IF Engine(name) = "DFS"
           THEN /\ start("DFS")
                /\ stack' = <<initial_state>>
                /\ depth_limit' = DepthLimit
                /\ UNCHANGED <<queue, priority_queue>>
           ELSE IF Engine(name) = "A*"
           THEN /\ start("A*")
                /\ LET h == manhattan_distance(initial_state)
                   IN  priority_queue' = <<<<h, h, [initial_state EXCEPT !.cost = h]>>>>
                /\ UNCHANGED <<queue, stack, depth_limit>>
           ELSE error(UnknownAlgorithmError(name))
    /\ UNCHANGED <<initial_board, patience>>

\* One test of bfs_solve's "while queue" and, when it passes, one iteration.
BfsStep ==
    /\ pc = "BFS"
    /\ queue = <<>> \/ nodes_expanded < patience
    /\ IF queue = <<>>
       THEN Return(BfsFailure(nodes_expanded, max_size))
       ELSE LET peak     == Max(max_size, Len(queue))
                current  == Head(queue)
                expanded == nodes_expanded + 1
                after    == BfsEnqueue(get_successors(current), 1, visited, Tail(queue))
            IN  IF is_goal(current)
                THEN Return(BfsSuccess(current, expanded, peak))
                ELSE /\ queue' = after.frontier
                     /\ visited' = after.visited
                     /\ nodes_expanded' = expanded
                     /\ max_size' = peak
                     /\ UNCHANGED <<initial_board, pc, algorithm, stack,
                                    priority_queue, depth_limit, patience, results>>

\* Faulty variant of DfsStep: a state at the depth limit is expanded too.
DfsStepExpandingAtLimit ==
    /\ pc = "DFS"
    /\ stack = <<>> \/ nodes_expanded < patience
    /\ IF stack = <<>>
       THEN Return(DfsFailure(nodes_expanded, max_size, depth_limit))
       ELSE LET peak     == Max(max_size, Len(stack))
                current  == stack[Len(stack)]
                rest     == SubSeq(stack, 1, Len(stack) - 1)
                expanded == nodes_expanded + 1
                after    == IF current.depth <= depth_limit
                            THEN DfsPush(Reverse(get_successors(current)), 1,
                                         visited, rest)
                            ELSE [visited |-> visited, frontier |-> rest]
            IN  IF is_goal(current)
                THEN Return(DfsSuccess(current, expanded, peak))
                ELSE /\ stack' = after.frontier
                     /\ visited' = after.visited
                     /\ nodes_expanded' = expanded
                     /\ max_size' = peak
                     /\ UNCHANGED <<initial_board, pc, algorithm, queue,
                                    priority_queue, depth_limit, patience, results>>

\* One test of dfs_solve's "while stack" and, when it passes, one iteration.
DfsStep ==
    /\ pc = "DFS"
    /\ stack = <<>> \/ nodes_expanded < patience
    /\ IF stack = <<>>
       THEN Return(DfsFailure(nodes_expanded, max_size, depth_limit))
       ELSE LET peak     == Max(max_size, Len(stack))
                current  == stack[Len(stack)]
                rest     == SubSeq(stack, 1, Len(stack) - 1)
                expanded == nodes_expanded + 1
                after    == IF current.depth < depth_limit
                            THEN DfsPush(Reverse(get_successors(current)), 1,
                                         visited, rest)
                            ELSE [visited |-> visited, frontier |-> rest]
            IN  IF is_goal(current)
                THEN Return(DfsSuccess(current, expanded, peak))
                ELSE /\ stack' = after.frontier
                     /\ visited' = after.visited
                     /\ nodes_expanded' = expanded
                     /\ max_size' = peak
                     /\ UNCHANGED <<initial_board, pc, algorithm, queue,
                                    priority_queue, depth_limit, patience, results>>

\* One test of astar_solve's "while priority_queue" and, when it passes,
\* one iteration.
AstarStep ==
    /\ pc = "A*"
    /\ priority_queue = <<>> \/ nodes_expanded < patience
    /\ IF priority_queue = <<>>
       THEN Return(AstarFailure(nodes_expanded, max_size))
       ELSE LET peak     == Max(max_size, Len(priority_queue))
                popped   == HeapPop(priority_queue)
                current  == popped.item[3]
                expanded == nodes_expanded + 1
                after    == AstarPush(get_successors(current), 1, visited, popped.heap)
            IN  IF is_goal(current)
                THEN Return(AstarSuccess(current, expanded, peak))
                ELSE /\ priority_queue' = after.frontier
                     /\ visited' = after.visited
                     /\ nodes_expanded' = expanded
                     /\ max_size' = peak
                     /\ UNCHANGED <<initial_board, pc, algorithm, queue, stack,
                                    depth_limit, patience, results>>

\* The frontier of the running engine.
Frontier ==
    IF pc = "BFS" THEN queue ELSE IF pc = "DFS" THEN stack ELSE priority_queue

\* The caller gives up on a search that has run MaxNodes iterations without
\* returning: the call is dropped and nothing is recorded for it.
Abandon ==
    /\ pc # "idle"
    /\ nodes_expanded >= patience
    /\ Frontier # <<>>
    /\ pc' = "idle"
    /\ queue' = <<>>
    /\ stack' = <<>>
    /\ priority_queue' = <<>>
    /\ visited' = {}
    /\ nodes_expanded' = 0
    /\ max_size' = 0
    /\ depth_limit' = 0
    /\ UNCHANGED <<initial_board, algorithm, patience, results>>

Next ==
    \/ \E name \in AlgorithmNames : SolvePuzzle(name)
    \/ BfsStep
    \/ DfsStep
    \/ AstarStep
    \/ Abandon

Spec == Init /\ [][Next]_vars

\* The behaviours of a caller that holds one of HardBoards and waits longer.
SpecHard == InitHard /\ [][Next]_vars

\* The caller holds one of DfsBoards and calls dfs_solve itself.
InitDfs ==
    /\ initial_board \in DfsBoards
    /\ pc = "idle"
    /\ algorithm = ""
    /\ queue = <<>>
    /\ stack = <<>>
    /\ priority_queue = <<>>
    /\ visited = {}
    /\ nodes_expanded = 0
    /\ max_size = 0
    /\ depth_limit = 0
    /\ patience = MaxDfsNodes
    /\ results = [a \in AlgorithmNames |-> NoResult]

\* dfs_solve(PuzzleState(initial_board), limit), called by a caller that
\* holds no DFS result yet, up to the first test of the while loop; the
\* result will be held under the name it carries, "DFS".
DfsSolve(limit) ==
    /\ pc = "idle"
    /\ results["DFS"] = NoResult
    /\ LET initial_state == PuzzleState(initial_board, None, None, 0, 0)
       IN  /\ stack' = <<initial_state>>
           /\ visited' = {initial_state.board}
    /\ pc' = "DFS"
    /\ algorithm' = "DFS"
    /\ depth_limit' = limit
    /\ nodes_expanded' = 0
    /\ max_size' = 0
    /\ UNCHANGED <<initial_board, queue, priority_queue, patience, results>>

NextDfs ==
    \/ \E limit \in DfsLimits : DfsSolve(limit)
    \/ DfsStep
    \/ Abandon

\* The behaviours of a caller that calls dfs_solve with a limit it chooses.
SpecDfs == InitDfs /\ [][NextDfs]_vars

---------------------------------------------------------------------------
(* Reference notions for the properties, defined without the program's   *)
(* own successor function.                                               *)

\* The three names solve_puzzle dispatches on.
Engines == {"BFS", "DFS", "A*"}

\* The canonical goal board of each size.
GoalBoard(size) ==
    IF size = 2 THEN <<<<1, 2>>, <<3, 0>>>>
    ELSE <<<<1, 2, 3>>, <<4, 5, 6>>, <<7, 8, 0>>>>

\* The board has an outer length of 2 or 3 and every row has that length.
WellShaped(board) ==
    /\ Len(board) \in {2, 3}
    /\ \A r \in 1..Len(board) : Len(board[r]) = Len(board)

\* A well-shaped board holding each of 0 .. N*N-1 exactly once.
IsPermutationBoard(board) ==
    /\ WellShaped(board)
    /\ {board[i][j] : i \in 1..Len(board), j \in 1..Len(board)}
           = 0..(Len(board) * Len(board) - 1)

\* The board with the contents of cells p and q (1-based pairs) exchanged.
Exchange(board, p, q) ==
    [i \in 1..Len(board) |-> [j \in 1..Len(board[i]) |->
        IF <<i, j>> = p THEN board[q[1]][q[2]]
        ELSE IF <<i, j>> = q THEN board[p[1]][p[2]]
        ELSE board[i][j]]]

\* The boards obtained from a board by one slide: the blank exchanged with
\* an orthogonally adjacent tile.
Slides(board) ==
    LET cells       == (1..Len(board)) \X (1..Len(board))
        blanks      == {p \in cells : board[p[1]][p[2]] = 0}
        adjacent(p) == {q \in cells : Abs(p[1] - q[1]) + Abs(p[2] - q[2]) = 1}
    IN  UNION {{Exchange(board, p, q) : q \in adjacent(p)} : p \in blanks}

RECURSIVE SlidesToGoal(_, _, _)
\* The least number of slides from a board of S to the goal, plus k, where
\* S is the set of boards at most k slides from the start; -1 if none.
SlidesToGoal(S, k, goal) ==
    IF goal \in S THEN k
    ELSE LET T == S \cup UNION {Slides(b) : b \in S}
         IN  IF T = S THEN -1 ELSE SlidesToGoal(T, k + 1, goal)

\* The length of a shortest slide sequence from the board to its goal,
\* -1 when the goal cannot be reached.
ShortestSlides(board) == SlidesToGoal({board}, 0, GoalBoard(Len(board)))

\* ShortestSlides of every valid board a caller may hold.
Shortest ==
    [board \in {b \in InputBoards \cup HardBoards \cup DfsBoards :
                      IsPermutationBoard(b)}
        |-> ShortestSlides(board)]

Solvable(board) == IsPermutationBoard(board) /\ Shortest[board] >= 0

Unsolvable(board) == IsPermutationBoard(board) /\ Shortest[board] = -1

RECURSIVE SlideClosure(_)
\* The boards reachable from the boards of S by any number of slides.
SlideClosure(S) ==
    LET T == S \cup UNION {Slides(b) : b \in S}
    IN  IF T = S THEN S ELSE SlideClosure(T)

\* The caller holds an engine's result for the name.
Returned(name) == results[name] # NoResult

\* The caller holds a successful result for the name.
Succeeded(name) == Returned(name) /\ results[name].success

---------------------------------------------------------------------------
(* Properties *)

\* C1: on every solvable board bfs_solve never runs out of queue, is never
\* given up on, and returns success with solution_depth equal to the length
\* of a shortest slide sequence from the input board to the goal.
C1_BfsShortest ==
    Solvable(initial_board) =>
        /\ pc = "BFS" => (queue # <<>> /\ nodes_expanded < patience)
        /\ Returned("BFS") =>
              /\ results["BFS"].success
              /\ results["BFS"].solution_depth = Shortest[initial_board]

\* C1 witness: BFS has solved a 3x3 board that is three slides from the goal.
C1_Witness ==
    /\ Len(initial_board) = 3
    /\ Succeeded("BFS")
    /\ results["BFS"].solution_depth = 3
    /\ results["BFS"].nodes_expanded > 10

\* C2: on every solvable board astar_solve returns success, with the
\* solution_depth bfs_solve returns for the same board, which is the
\* length of a shortest slide sequence: the path of A* is optimal.
C2_AstarDepthIsBfsDepth ==
    Solvable(initial_board) =>
        /\ pc = "A*" => priority_queue # <<>>
        /\ Returned("A*") =>
              /\ results["A*"].success
              /\ results["A*"].solution_depth = Shortest[initial_board]
        /\ (Returned("A*") /\ Returned("BFS")) =>
              results["A*"].solution_depth = results["BFS"].solution_depth

\* C3: a successful result's path starts at the input board, ends at the
\* goal board of that size, and each board follows from the one before by
\* one slide of the blank.
C3_PathIsSlideSequence ==
    \A a \in Engines :
        Succeeded(a) =>
            LET path == results[a].solution_path
            IN  /\ Len(path) >= 1
                /\ path[1] = initial_board
                /\ path[Len(path)] = GoalBoard(Len(initial_board))
                /\ \A i \in 1..(Len(path) - 1) : path[i + 1] \in Slides(path[i])

\* C3 witness: the three engines have solved the same 3x3 board, DFS by a
\* path of more than twenty slides.
C3_Witness ==
    /\ Len(initial_board) = 3
    /\ \A a \in Engines : Succeeded(a)
    /\ results["BFS"].solution_depth >= 2
    /\ results["DFS"].solution_depth > 20

\* C4: with the results of DFS and BFS on the same valid board in hand,
\* either DFS failed, or both succeeded and DFS's solution_depth is at
\* least BFS's.
C4_DfsNeverBeatsBfs ==
    (IsPermutationBoard(initial_board) /\ Returned("DFS") /\ Returned("BFS")) =>
        \/ ~results["DFS"].success
        \/ /\ results["BFS"].success
           /\ results["DFS"].solution_depth >= results["BFS"].solution_depth

\* C4 witness: both succeeded and DFS's path is strictly longer.
C4_Witness ==
    /\ Succeeded("DFS") /\ Succeeded("BFS")
    /\ results["DFS"].solution_depth > results["BFS"].solution_depth

\* C5: on a solvable board that is not the goal, A* reports no more
\* expanded nodes than BFS.
C5_AstarExpandsNoMore ==
    (Solvable(initial_board) /\ Succeeded("A*") /\ Succeeded("BFS")
        /\ results["BFS"].solution_depth >= 1) =>
        results["A*"].nodes_expanded <= results["BFS"].nodes_expanded

\* C5 witness: both solved a 3x3 board and A* expanded strictly fewer nodes.
C5_Witness ==
    /\ Len(initial_board) = 3
    /\ Succeeded("A*") /\ Succeeded("BFS")
    /\ results["BFS"].solution_depth >= 1
    /\ results["A*"].nodes_expanded < results["BFS"].nodes_expanded

\* C6: on a board that is not well shaped no search is ever running, and
\* every call, whatever the algorithm name, returned success = false with
\* a non-empty error, no solution_path and no search metrics.
C6_MalformedRejected ==
    ~WellShaped(initial_board) =>
        /\ pc = "idle" /\ visited = {} /\ nodes_expanded = 0
        /\ queue = <<>> /\ stack = <<>> /\ priority_queue = <<>>
        /\ \A name \in AlgorithmNames :
              Returned(name) =>
                  /\ ~results[name].success
                  /\ "error" \in DOMAIN results[name]
                  /\ \E i \in 1..Len(results[name].error) : results[name].error[i] # ""
                  /\ DOMAIN results[name] \cap
                        {"solution_path", "solution_depth", "nodes_expanded",
                         "max_queue_size", "max_stack_size", "algorithm"} = {}

\* C6 witness: a board whose rows have unequal lengths was passed with each
\* of the three engine names.
C6_Witness ==
    /\ Len(initial_board) = 3
    /\ ~WellShaped(initial_board)
    /\ \A a \in Engines : Returned(a)

\* C7: on a well-shaped board a call with a name other than BFS, DFS, A*
\* returned success = false with an error containing that name and nothing
\* of a search, and the engine that runs is always the one that was named.
C7_UnknownAlgorithmRejected ==
    WellShaped(initial_board) =>
        /\ pc # "idle" => (algorithm \in Engines /\ pc = algorithm)
        /\ \A name \in AlgorithmNames \ Engines :
              Returned(name) =>
                  /\ ~results[name].success
                  /\ "error" \in DOMAIN results[name]
                  /\ \E i \in 1..Len(results[name].error) : results[name].error[i] = name
                  /\ DOMAIN results[name] \cap
                        {"solution_path", "solution_depth", "nodes_expanded",
                         "max_queue_size", "max_stack_size", "algorithm"} = {}

\* C7 witness: both unknown names were passed with a well-shaped board.
C7_Witness ==
    /\ WellShaped(initial_board)
    /\ \A name \in AlgorithmNames \ Engines : Returned(name)

\* What the engines return on a valid board from which the goal cannot be
\* reached: a running engine is never given up on, and what each engine
\* returned is success = false with nodes_expanded and its peak
\* frontier size, without a solution_path; the failure of DFS also carries
\* a message that names the depth limit.
C8_ExhaustionSafety ==
    Unsolvable(initial_board) =>
        /\ pc # "idle" => nodes_expanded < patience
        /\ \A a \in Engines :
              Returned(a) =>
                  /\ ~results[a].success
                  /\ results[a].algorithm = a
                  /\ "nodes_expanded" \in DOMAIN results[a]
                  /\ (IF a = "DFS" THEN "max_stack_size" ELSE "max_queue_size")
                        \in DOMAIN results[a]
                  /\ "solution_path" \notin DOMAIN results[a]
                  /\ "error" \notin DOMAIN results[a]
        /\ Returned("DFS") =>
              /\ "message" \in DOMAIN results["DFS"]
              /\ \E i \in 1..Len(results["DFS"].message) :
                    results["DFS"].message[i] = ToString(DepthLimit)

\* C8: on a valid board from which the goal cannot be reached each engine
\* terminates and returns the failure described above.  Every step of an
\* engine running on such a board either finds the frontier empty and
\* returns that failure, or is one more loop iteration, which counts one
\* more expanded node; the count never exceeds the number of boards
\* reachable from the input, so the loop ends, and it ends by returning.
C8_ExhaustionTerminates ==
    /\ []C8_ExhaustionSafety
    /\ [][(Unsolvable(initial_board) /\ pc # "idle") =>
            \/ /\ Frontier = <<>>
               /\ pc' = "idle"
               /\ results'[pc] # NoResult
               /\ ~results'[pc].success
               /\ nodes_expanded >= 1
            \/ /\ pc' = pc
               /\ nodes_expanded' = nodes_expanded + 1
               /\ nodes_expanded' <= Cardinality(SlideClosure({initial_board}))]_vars

\* C8 witness: the three engines have each exhausted the twelve boards
\* reachable from an unsolvable 2x2 board.
C8_Witness ==
    /\ Unsolvable(initial_board)
    /\ \A a \in Engines :
          Returned(a) /\ ~results[a].success /\ results[a].nodes_expanded = 12

\* C10: when the input board is the goal board of its size, each engine
\* returned success with solution_depth 0 and a solution_path holding
\* the input board and nothing else.
C10_GoalInputSolvedAtOnce ==
    (WellShaped(initial_board) /\ initial_board = GoalBoard(Len(initial_board))) =>
        \A a \in Engines :
            Returned(a) =>
                /\ results[a].success
                /\ results[a].solution_depth = 0
                /\ results[a].solution_path = <<initial_board>>

\* C10 witness: the three engines were each called on the 3x3 goal board.
C10_Witness ==
    /\ initial_board = <<<<1, 2, 3>>, <<4, 5, 6>>, <<7, 8, 0>>>>
    /\ \A a \in Engines : Returned(a)

\* The 2x2 board of the scenario: the goal with tiles 1 and 2 exchanged.
SwappedBoard == <<<<2, 1>>, <<3, 0>>>>

\* The 2x2 boards one slide from the goal.
OneSlideBoards == {<<<<1, 2>>, <<0, 3>>>>, <<<<1, 0>>, <<3, 2>>>>}

\* C11 as stated: on the 2x2 board [[2,1],[3,0]] BFS returns success with
\* nodes_expanded at most 2 more than the board's shortest solution depth.
C11_SwappedBoardSolved ==
    (initial_board = SwappedBoard /\ Returned("BFS")) =>
        /\ results["BFS"].success
        /\ results["BFS"].nodes_expanded <= Shortest[initial_board] + 2

\* C11 amended: the goal cannot be reached from [[2,1],[3,0]] and BFS
\* returns success=false there, having expanded each of the 12 boards that
\* can be reached; on the 2x2 boards one slide from the goal BFS returns
\* success with nodes_expanded at most 2 more than the shortest depth, 1.
C11_SwappedBoardUnsolvable ==
    /\ (initial_board = SwappedBoard /\ Returned("BFS")) =>
          /\ Unsolvable(initial_board)
          /\ results["BFS"] = BfsFailure(12, results["BFS"].max_queue_size)
          /\ Cardinality(SlideClosure({initial_board})) = 12
    /\ (initial_board \in OneSlideBoards /\ Returned("BFS")) =>
          /\ Shortest[initial_board] = 1
          /\ results["BFS"].success
          /\ results["BFS"].solution_depth = 1
          /\ results["BFS"].nodes_expanded <= Shortest[initial_board] + 2

\* C11 witness: BFS has returned on the board [[2,1],[3,0]].
C11_Witness ==
    /\ initial_board = SwappedBoard
    /\ Returned("BFS")
    /\ results["BFS"].nodes_expanded = 12

FrontierStates ==
    IF pc = "A*"
    THEN [i \in 1..Len(priority_queue) |-> priority_queue[i][3]]
    ELSE Frontier

\* The boards of the states in the frontier.
FrontierBoards == {FrontierStates[i].board : i \in 1..Len(FrontierStates)}

\* C13, at every point of a search: each frontier board is in visited, no
\* two frontier elements have the same board, and the boards marked so far
\* are as many as the elements popped plus the elements still waiting, so
\* no board has been inserted twice.
C13_FrontierInvariant ==
    pc \in Engines =>
        /\ FrontierBoards \subseteq visited
        /\ Cardinality(FrontierBoards) = Len(Frontier)
        /\ Cardinality(visited) = nodes_expanded + Len(Frontier)

\* C13: in each of BFS, DFS and A* the frontier invariant holds throughout,
\* and an iteration that goes on searching forgets no visited board, takes
\* the popped board out of the frontier for good and inserts only boards
\* that were not visited before: a board is inserted at most once per run.
C13_InsertedOnce ==
    /\ []C13_FrontierInvariant
    /\ [][(pc \in Engines /\ pc' = pc) =>
            LET popped == IF pc = "BFS" THEN Head(queue).board
                          ELSE IF pc = "DFS" THEN stack[Len(stack)].board
                          ELSE HeapPop(priority_queue).item[3].board
            IN  /\ visited \subseteq visited'
                /\ popped \in visited
                /\ popped \notin FrontierBoards'
                /\ (FrontierBoards' \ FrontierBoards) \cap visited = {}
                /\ visited' = visited \cup FrontierBoards']_vars

\* C13 witness: a search holds in its frontier a board that can also be
\* reached by one slide from a visited board other than its parent's.
C13_Witness ==
    /\ pc \in Engines
    /\ nodes_expanded >= 5
    /\ \E i \in 1..Len(FrontierStates) :
          \E b \in Slides(FrontierStates[i].board) :
              /\ b \in visited
              /\ b # FrontierStates[i].parent.board

\* C14: when dfs_solve returns success=false for a depth limit, the goal is
\* not within that many slides of the input board.
C14_DfsCompleteWithinLimit ==
    [][(/\ pc = "DFS"
        /\ pc' = "idle"
        /\ results'["DFS"] # NoResult
        /\ ~results'["DFS"].success)
          => ~(Shortest[initial_board] \in 0..depth_limit)]_vars

\* Rings around the goal are followed out to MaxRing slides.
MaxRing == 9

RECURSIVE Rings(_, _, _)
\* The rings around the boards of seen: first the given ring, then the
\* boards one slide further out and not seen before, and so on n times.
Rings(seen, ring, n) ==
    IF n = 0 \/ ring = {} THEN <<ring>>
    ELSE LET next == UNION {Slides(b) : b \in ring} \ seen
         IN  <<ring>> \o Rings(seen \cup next, next, n - 1)

\* GoalRings[size][k + 1]: the boards exactly k slides from the goal.
GoalRings ==
    [size \in {2, 3} |->
        Rings({GoalBoard(size)}, {GoalBoard(size)}, IF size = 2 THEN 12 ELSE MaxRing)]

\* The boards of the rings, from each of which the goal can be reached.
NearGoal(size) == UNION {GoalRings[size][k] : k \in 1..Len(GoalRings[size])}

\* The shortest slide distance to the goal of a board of NearGoal.
GoalDistance(board) ==
    LET rings == GoalRings[Len(board)]
    IN  (CHOOSE k \in 1..Len(rings) : board \in rings[k]) - 1

\* C15: for every state A* holds in its priority queue, the h recorded with
\* it is manhattan_distance of the state; it is 0 on the goal board; it is
\* at most the shortest slide distance to the goal when the goal can be
\* reached; and it is at most 1 more than h of any board one slide away.
C15_HeuristicAdmissibleConsistent ==
    pc = "A*" =>
        \A i \in 1..Len(priority_queue) :
            LET s == priority_queue[i][3]
                h == priority_queue[i][2]
            IN  /\ h = manhattan_distance(s)
                /\ h >= 0
                /\ (s.board = GoalBoard(s.size)) => h = 0
                /\ (Len(s.board) = 2 \/ Solvable(initial_board)) =>
                      (s.board \in NearGoal(s.size) => h <= GoalDistance(s.board))
                /\ Solvable(initial_board) => s.board \in NearGoal(s.size)
                /\ \A b \in Slides(s.board) :
                      h <= 1 + manhattan_distance(PuzzleState(b, None, None, 0, 0))

\* C15 witness: A* on a solvable 3x3 board holds the goal board, with h = 0,
\* together with a board of NearGoal whose h is at least 3.
C15_Witness ==
    /\ pc = "A*"
    /\ Solvable(initial_board)
    /\ Len(initial_board) = 3
    /\ \E i, j \in 1..Len(priority_queue) :
          /\ priority_queue[i][3].board = GoalBoard(3)
          /\ priority_queue[i][2] = 0
          /\ priority_queue[j][2] >= 3
          /\ priority_queue[j][3].board \in NearGoal(3)

\* C16, at every point of bfs_solve: the depths of the states in the queue
\* do not decrease from front to back, and the last is at most 1 deeper
\* than the first.
C16_QueueDepthsOrdered ==
    pc = "BFS" =>
        /\ \A i, j \in 1..Len(queue) : i <= j => queue[i].depth <= queue[j].depth
        /\ queue # <<>> => queue[Len(queue)].depth <= Head(queue).depth + 1

\* C16: the queue of bfs_solve is ordered by depth as above throughout, and
\* the state dequeued by an iteration is no shallower than the state the
\* iteration before dequeued, so states are expanded in non-decreasing
\* depth and the first goal dequeued is at the least depth.
C16_BfsDepthOrder ==
    /\ []C16_QueueDepthsOrdered
    /\ [][(pc = "BFS" /\ pc' = "BFS" /\ queue' # <<>>) =>
            /\ Head(queue).depth <= Head(queue').depth
            /\ \A i \in 1..Len(queue') : Head(queue).depth <= queue'[i].depth]_vars

\* C16 witness: the queue of a 3x3 search holds states of two depths, the
\* front one at depth 2 or more.
C16_Witness ==
    /\ pc = "BFS"
    /\ Len(initial_board) = 3
    /\ Len(queue) >= 3
    /\ Head(queue).depth >= 2
    /\ queue[Len(queue)].depth = Head(queue).depth + 1

\* C17, at every point of dfs_solve: no state on the stack is deeper than
\* the depth limit.
C17_StackWithinLimit ==
    pc = "DFS" => \A i \in 1..Len(stack) : stack[i].depth <= depth_limit

\* C17: the stack of dfs_solve never holds a state deeper than the limit;
\* every popped state is counted and goal-tested, one at the limit
\* included, but popping a state at the limit that is not the goal pushes
\* nothing and marks nothing; a successful result has solution_depth at
\* most the limit of the call.
C17_DepthLimitRespected ==
    /\ []C17_StackWithinLimit
    /\ [][(pc = "DFS" /\ stack # <<>>) =>
            LET current == stack[Len(stack)]
                rest    == SubSeq(stack, 1, Len(stack) - 1)
            IN  /\ pc' = "DFS" =>
                      /\ nodes_expanded' = nodes_expanded + 1
                      /\ ~is_goal(current)
                      /\ current.depth = depth_limit =>
                            (stack' = rest /\ visited' = visited)
                /\ (pc' = "idle" /\ results'["DFS"] # results["DFS"]) =>
                      /\ is_goal(current)
                      /\ results'["DFS"].success
                      /\ results'["DFS"].nodes_expanded = nodes_expanded + 1
                      /\ results'["DFS"].solution_depth = current.depth
                      /\ results'["DFS"].solution_depth <= depth_limit]_vars

\* C17 witness: a search with a limit of 2 or more, on a board whose
\* shortest distance to the goal is the limit, has popped three states and
\* has on top of its stack a state at the limit that is not the goal.
C17_Witness ==
    /\ pc = "DFS"
    /\ depth_limit >= 2
    /\ nodes_expanded >= 3
    /\ stack # <<>>
    /\ stack[Len(stack)].depth = depth_limit
    /\ ~is_goal(stack[Len(stack)])
    /\ Shortest[initial_board] = depth_limit

\* The cell (row, column, counted from 1) holding the blank of a board.
BlankCell(board) ==
    CHOOSE p \in (1..Len(board)) \X (1..Len(board)) : board[p[1]][p[2]] = 0

\* The place of each direction in the canonical order.
Rank == ("UP" :> 1) @@ ("DOWN" :> 2) @@ ("LEFT" :> 3) @@ ("RIGHT" :> 4)

\* What each direction adds to the blank's row and column.
Offset ==
    ("UP" :> <<-1, 0>>) @@ ("DOWN" :> <<1, 0>>) @@
    ("LEFT" :> <<0, -1>>) @@ ("RIGHT" :> <<0, 1>>)

\* The child is the parent state's successor in the direction it names:
\* the blank has moved that way, the tile it met has taken its place, the
\* other cells are as they were, and depth and parent are set.
IsSuccessorOf(child, parent) ==
    LET from == BlankCell(parent.board)
        to   == <<from[1] + Offset[child.move][1], from[2] + Offset[child.move][2]>>
    IN  /\ child.move \in DOMAIN Offset
        /\ to \in (1..Len(parent.board)) \X (1..Len(parent.board))
        /\ child.board = Exchange(parent.board, from, to)
        /\ child.parent = parent
        /\ child.depth = parent.depth + 1

\* C18: an iteration of dfs_solve that pops a state below the depth limit
\* and goes on leaves the rest of the stack as it was and puts on top of it
\* the popped state's successors with unvisited boards, each once, in the
\* order RIGHT, LEFT, DOWN, UP from the bottom: the first unvisited
\* successor in the order UP, DOWN, LEFT, RIGHT is on top and is popped
\* next, and the others are popped later in that order.
C18_DfsCanonicalOrder ==
    [][(pc = "DFS" /\ pc' = "DFS" /\ stack # <<>>
        /\ stack[Len(stack)].depth < depth_limit) =>
          LET current == stack[Len(stack)]
              below   == Len(stack) - 1
              pushed  == SubSeq(stack', below + 1, Len(stack'))
          IN  /\ Len(stack') >= below
              /\ SubSeq(stack', 1, below) = SubSeq(stack, 1, below)
              /\ \A i \in 1..Len(pushed) : IsSuccessorOf(pushed[i], current)
              /\ {pushed[i].board : i \in 1..Len(pushed)}
                    = Slides(current.board) \ visited
              /\ \A i, j \in 1..Len(pushed) :
                    i < j => Rank[pushed[i].move] > Rank[pushed[j].move]]_vars

\* C18 witness: the last expansion pushed two or more successors, LEFT or
\* RIGHT under DOWN; UP and the way back were out of bounds or visited.
C18_Witness ==
    /\ pc = "DFS"
    /\ nodes_expanded >= 2
    /\ Len(stack) >= 3
    /\ LET top  == stack[Len(stack)]
           next == stack[Len(stack) - 1]
       IN  /\ top.parent = next.parent
           /\ top.move = "DOWN"
           /\ next.move \in {"LEFT", "RIGHT"}
           /\ Len(top.board) = 3

\* C19: for every state s in a frontier, get_successors(s) lists one state
\* for each neighbouring cell of the blank and no other, in the order UP,
\* DOWN, LEFT, RIGHT; each is s with the blank exchanged with the cell in
\* the direction it names and nothing else changed, so its board is again
\* a permutation of 0 .. N*N-1; each carries s, board unchanged, as parent.
C19_SuccessorsAreSlides ==
    pc \in Engines =>
        \A n \in 1..Len(FrontierStates) :
            LET s          == FrontierStates[n]
                successors == get_successors(s)
            IN  /\ IsPermutationBoard(s.board)
                /\ \A k \in 1..Len(successors) :
                      /\ IsSuccessorOf(successors[k], s)
                      /\ IsPermutationBoard(successors[k].board)
                      /\ successors[k].parent.board = s.board
                      /\ successors[k].size = s.size
                /\ \A i, j \in 1..Len(successors) :
                      i < j => Rank[successors[i].move] < Rank[successors[j].move]
                /\ Len(successors) = Cardinality(Slides(s.board))
                /\ {successors[k].board : k \in 1..Len(successors)} = Slides(s.board)

\* C19 witness: a frontier holds a 3x3 state below the initial one with the
\* blank in the centre (four successors) and one with the blank in a
\* corner (two successors).
C19_Witness ==
    /\ pc \in Engines
    /\ \E i, j \in 1..Len(FrontierStates) :
          /\ FrontierStates[i].size = 3
          /\ FrontierStates[i].depth >= 1
          /\ Len(get_successors(FrontierStates[i])) = 4
          /\ BlankCell(FrontierStates[i].board) = <<2, 2>>
          /\ Len(get_successors(FrontierStates[j])) = 2

RECURSIVE ParentLinks(_)
\* The number of parent links from a state back to a state without parent.
ParentLinks(state) ==
    IF state.parent = None THEN 0 ELSE 1 + ParentLinks(state.parent)

RECURSIVE DepthsDescend(_)
\* Along the parent chain of the state the depth falls by one at each link
\* and is 0 at the end, which holds the caller's board.
DepthsDescend(state) ==
    IF state.parent = None
    THEN state.depth = 0 /\ state.board = initial_board
    ELSE state.parent.depth = state.depth - 1 /\ DepthsDescend(state.parent)

\* C20, for every state in a frontier: depth is the number of parent links
\* back to the initial state, and depth falls by one along each link.
C20_DepthIsParentLinks ==
    pc \in Engines =>
        \A n \in 1..Len(FrontierStates) :
            /\ FrontierStates[n].depth = ParentLinks(FrontierStates[n])
            /\ DepthsDescend(FrontierStates[n])

\* C20: every state ever placed in a frontier has depth equal to the number
\* of its parent links, with depth strictly decreasing along the chain down
\* to the initial state at depth 0; and the solution_depth of a returned
\* success, the path length less one, is the depth of the goal state that
\* was taken from the frontier.
C20_SolutionDepthIsGoalDepth ==
    /\ []C20_DepthIsParentLinks
    /\ [][(pc \in Engines /\ pc' = "idle" /\ results'[pc] # NoResult
           /\ results'[pc].success) =>
            LET extracted == IF pc = "BFS" THEN Head(queue)
                             ELSE IF pc = "DFS" THEN stack[Len(stack)]
                             ELSE HeapPop(priority_queue).item[3]
            IN  /\ results'[pc].solution_depth = extracted.depth
                /\ results'[pc].solution_depth = ParentLinks(extracted)
                /\ results'[pc].solution_depth
                      = Len(results'[pc].solution_path) - 1]_vars

\* C20 witness: A* on a 3x3 board is about to extract the goal state, which
\* is three or more parent links from the initial state.
C20_Witness ==
    /\ pc = "A*"
    /\ Len(initial_board) = 3
    /\ priority_queue # <<>>
    /\ is_goal(HeapPop(priority_queue).item[3])
    /\ ParentLinks(HeapPop(priority_queue).item[3]) >= 3

\* Entry a's key (f, h) is not after entry b's: smaller f, or equal f and h
\* not larger.
KeyNotAfter(a, b) == a[1] < b[1] \/ (a[1] = b[1] /\ a[2] <= b[2])

\* C21, at every point of astar_solve: each entry (f, h, state) of the
\* priority queue has h = manhattan_distance(state) and f = state.depth + h,
\* f being also the state's stored cost; the initial state has f = h.
C21_EntriesKeyed ==
    pc = "A*" =>
        \A i \in 1..Len(priority_queue) :
            LET e == priority_queue[i]
            IN  /\ Len(e) = 3
                /\ e[2] = manhattan_distance(e[3])
                /\ e[1] = e[3].depth + e[2]
                /\ e[3].cost = e[1]
                /\ e[3].parent = None => (e[3].depth = 0 /\ e[1] = e[2])

\* C21: the entries of the priority queue are keyed as above throughout,
\* and the entry an iteration extracts, which is the one whose board is
\* gone from the queue afterwards when the search goes on and the one at
\* the end of the returned path when it succeeds, has a key (f, h) not
\* after the key of any entry that was in the queue.
C21_ExtractsMinimalKey ==
    /\ []C21_EntriesKeyed
    /\ [][(pc = "A*" /\ priority_queue # <<>>) =>
            LET entries   == {priority_queue[i] : i \in 1..Len(priority_queue)}
                extracted ==
                    IF pc' = "A*"
                    THEN {e \in entries : e[3].board \notin FrontierBoards'}
                    ELSE IF results'["A*"] # NoResult /\ results'["A*"].success
                    THEN {e \in entries :
                            /\ e[3].board = results'["A*"].solution_path[
                                               Len(results'["A*"].solution_path)]
                            /\ e[3].depth = results'["A*"].solution_depth}
                    ELSE {}
            IN  /\ (pc' = "A*" \/ results'["A*"] # results["A*"]) =>
                       Cardinality(extracted) = 1
                /\ \A x \in extracted : \A e \in entries : KeyNotAfter(x, e)]_vars

\* C21 witness: A* has extracted twice or more and is about to extract
\* from a queue in which two entries share the least f and differ in h.
C21_Witness ==
    /\ pc = "A*"
    /\ nodes_expanded >= 2
    /\ \E i, j \in 1..Len(priority_queue) :
          /\ priority_queue[i][1] = priority_queue[j][1]
          /\ priority_queue[i][2] < priority_queue[j][2]
          /\ \A k \in 1..Len(priority_queue) :
                priority_queue[i][1] <= priority_queue[k][1]

===========================================================================
